---- MODULE Spec2Model ----
(***************************************************************************)
(* A model of jsqi (src/jsqi.js): the query language's tokenizer, its      *)
(* recursive-descent parser, the evaluation of the compiled tree against a *)
(* subject string, and the Interpreter that caches the compiled tree.      *)
(*                                                                         *)
(* A JavaScript string is a sequence of one-character strings; the empty   *)
(* string "" is what charAt() returns past the end of the input.  A method *)
(* that reads or writes the state of its object is an operator from the    *)
(* state record to [st |-> the state after, val |-> the value returned].   *)
(* A thrown Error is the field err of the state record: once it is not     *)
(* NoError every caller returns at once, as a JavaScript exception unwinds.*)
(***************************************************************************)
EXTENDS Integers, Sequences, FiniteSets, TLC

VARIABLES
    written,  \* the token sequence the query was written from (never changes)
    parser,   \* Interpreter.input: the Parser, its TokenStream and InputStream
    value,    \* Interpreter.value: the cached tree, Undefined before
    ret,      \* what the last call returned or threw
    out       \* the tokens TokenStream.next() has returned so far

vars == <<written, parser, value, ret, out>>

RECURSIVE read_while(_, _)
RECURSIVE read_escaped_loop(_, _, _, _)
RECURSIVE parse_operand(_, _)
RECURSIVE lazy_operator(_)
RECURSIVE parse_operator(_, _, _)
RECURSIVE indexOf_from(_, _, _)
RECURSIVE Term_exec_loop(_, _, _, _)
RECURSIVE node_exec(_, _, _)

----------------------------------------------------------------------------
(* Bounds of the model.                                                    *)

\* The longest query, in tokens, of the Interpreter's specification.
MaxTokens == 4

\* The longest subject string handed to exec().
MaxSubjectLen == 2

\* The most terms in a chain of terms.
MaxOperands == 3

\* The longest query with quoted terms or a bad character, in tokens.
MaxBadTokens == 2

\* The longest token sequence of the tokenizer's specification.
MaxLexTokens == 3

\* The most next() calls of the tokenizer's specification past the last token.
MaxNulls == 1

\* The longest term value and subject of the Term specification.
MaxTermLen == 5

----------------------------------------------------------------------------
(* JavaScript values.                                                       *)

NoError == "none"

\* null, as a token: what read_next() returns at the end of the input.
Null == [type |-> "null", value |-> <<>>]

\* undefined, as a tree: Interpreter.value before a compile has succeeded.
Undefined == [type |-> "undefined"]

Letters ==
    {"a", "b", "c", "d", "e", "f", "g", "h", "i", "j", "k", "l", "m",
     "n", "o", "p", "q", "r", "s", "t", "u", "v", "w", "x", "y", "z",
     "A", "B", "C", "D", "E", "F", "G", "H", "I", "J", "K", "L", "M",
     "N", "O", "P", "Q", "R", "S", "T", "U", "V", "W", "X", "Y", "Z"}

Digits == {"0", "1", "2", "3", "4", "5", "6", "7", "8", "9"}

----------------------------------------------------------------------------
(* InputStream                                                              *)

\* String.charAt: the character at a 0-based position, "" out of range.
charAt(input, pos) == IF pos >= 0 /\ pos < Len(input) THEN input[pos + 1] ELSE ""

\* A fresh InputStream inside a fresh TokenStream inside a fresh Parser:
\* is_lazy is a property the Parser never initialises.  writes and made are
\* history: the values assigned to is_lazy and the way each Op was made.
NewParser(input) ==
    [input |-> input, pos |-> 0, current |-> Null, is_lazy |-> "undefined",
     err |-> NoError, writes |-> <<>>, made |-> <<>>]

\* The value v handed to what follows it: K(v) is the rest of the method, in
\* which v is a local variable.
Let(v, K(_)) == K(v)

\* A call that threw: the state with its error, and no value.
Thrown(st) == [st |-> st, val |-> Null]

\* The result r of a call handed to the rest of the method, unless the call
\* threw: then the method ends there, with the state the throw left.
Try(r, K(_)) == IF r.st.err # NoError THEN Thrown(r.st) ELSE K(r)

InputStream_next(st) ==
    [st |-> [st EXCEPT !.pos = @ + 1], val |-> charAt(st.input, st.pos)]

InputStream_peek(st) == charAt(st.input, st.pos)

InputStream_eof(st) == InputStream_peek(st) = ""

InputStream_throw(st, msg) == Thrown([st EXCEPT !.err = msg])

----------------------------------------------------------------------------
(* TokenStream                                                              *)

is_ch_whitespace == {" "}

is_ch_term == Letters \cup Digits

is_ch_op == {"&", "|"}

is_ch_punc == {"(", ")"}

\* read_while(predicate): the predicate is the set of characters it accepts.
read_while(st, predicate) ==
    IF ~InputStream_eof(st) /\ InputStream_peek(st) \in predicate
    THEN Let(InputStream_next(st), LAMBDA n :
         Let(read_while(n.st, predicate), LAMBDA r :
         [st |-> r.st, val |-> <<n.val>> \o r.val]))
    ELSE [st |-> st, val |-> <<>>]

\* read_escaped's loop without its `escaped = false`.
read_escaped_loop_stuck(st, end, escaped, str) ==
    IF InputStream_eof(st)
    THEN [st |-> st, val |-> str]
    ELSE Let(InputStream_next(st), LAMBDA n :
         IF escaped THEN read_escaped_loop(n.st, end, TRUE, Append(str, n.val))
         ELSE IF n.val = "\\" THEN read_escaped_loop(n.st, end, TRUE, str)
         ELSE IF n.val = end THEN [st |-> n.st, val |-> str]
         ELSE read_escaped_loop(n.st, end, FALSE, Append(str, n.val)))

\* The while loop of read_escaped.
read_escaped_loop(st, end, escaped, str) ==
    IF InputStream_eof(st)
    THEN [st |-> st, val |-> str]
    ELSE Let(InputStream_next(st), LAMBDA n :
         IF escaped THEN read_escaped_loop(n.st, end, FALSE, Append(str, n.val))
         ELSE IF n.val = "\\" THEN read_escaped_loop(n.st, end, TRUE, str)
         ELSE IF n.val = end THEN [st |-> n.st, val |-> str]
         ELSE read_escaped_loop(n.st, end, FALSE, Append(str, n.val)))

read_escaped(st, end) ==
    read_escaped_loop(InputStream_next(st).st, end, FALSE, <<>>)

read_string(st) ==
    Let(read_escaped(st, "\""), LAMBDA r :
    [st |-> r.st, val |-> [type |-> "term", value |-> r.val]])

read_term(st) ==
    Let(read_while(st, is_ch_term), LAMBDA r :
    [st |-> r.st, val |-> [type |-> "term", value |-> r.val]])

TokenStream_throw(st, msg) == InputStream_throw(st, msg)

\* { type: this.input.next() }
read_type(st) ==
    Let(InputStream_next(st), LAMBDA n :
    [st |-> n.st, val |-> [type |-> n.val, value |-> <<>>]])

\* { type: "punc", value: this.input.next() }
read_punc(st) ==
    Let(InputStream_next(st), LAMBDA n :
    [st |-> n.st, val |-> [type |-> "punc", value |-> <<n.val>>]])

read_next(st) ==
    Let(read_while(st, is_ch_whitespace).st, LAMBDA w :
    Let(InputStream_peek(w), LAMBDA ch :
        IF InputStream_eof(w) THEN [st |-> w, val |-> Null]
        ELSE IF ch = "\"" THEN read_string(w)
        ELSE IF ch = "!" THEN read_type(w)
        ELSE IF ch \in is_ch_term THEN read_term(w)
        ELSE IF ch \in is_ch_op THEN read_type(w)
        ELSE IF ch \in is_ch_punc THEN read_punc(w)
        ELSE TokenStream_throw(w, "Unexpected character")))

\* this.current || (this.current = this.read_next())
TokenStream_peek(st) ==
    IF st.current # Null THEN [st |-> st, val |-> st.current]
    ELSE Try(read_next(st), LAMBDA r :
         [st |-> [r.st EXCEPT !.current = r.val], val |-> r.val])

TokenStream_next(st) ==
    IF st.current # Null
    THEN [st |-> [st EXCEPT !.current = Null], val |-> st.current]
    ELSE read_next(st)

TokenStream_eof(st) ==
    Try(TokenStream_peek(st), LAMBDA r : [st |-> r.st, val |-> r.val = Null])

----------------------------------------------------------------------------
(* The tree: Term, Not and Op nodes.                                        *)

\* Math.ceil(n / 4)
CeilQuarter(n) == (n + 3) \div 4

Term(v) == [type |-> "term", value |-> v, tolerance |-> CeilQuarter(Len(v))]

Not(v) == [type |-> "!", value |-> v]

Op(type, left, right) == [type |-> type, left |-> left, right |-> right]

----------------------------------------------------------------------------
(* Parser                                                                   *)

\* precedence with the two strengths exchanged.
precedence_swapped(type) == IF type = "|" THEN 2 ELSE 1

\* Parser._precedence
precedence(type) == IF type = "|" THEN 1 ELSE 2

unexpected(st) ==
    Try(TokenStream_peek(st), LAMBDA p :
    TokenStream_throw(p.st, "Unexpected token"))

\* The token when it is the punctuation ch, otherwise Null (a falsy value).
is_punc(st, ch) ==
    Try(TokenStream_peek(st), LAMBDA p :
    [st |-> p.st,
     val |-> IF p.val # Null /\ p.val.type = "punc" /\ p.val.value = <<ch>>
             THEN p.val ELSE Null])

is_op(st) ==
    Try(TokenStream_peek(st), LAMBDA p :
    [st |-> p.st,
     val |-> IF p.val # Null /\ (p.val.type = "&" \/ p.val.type = "|")
             THEN p.val ELSE Null])

is_not(st) ==
    Try(TokenStream_peek(st), LAMBDA p :
    [st |-> p.st,
     val |-> IF p.val # Null /\ p.val.type = "!" THEN p.val ELSE Null])

is_term(st) ==
    Try(TokenStream_peek(st), LAMBDA p :
    [st |-> p.st,
     val |-> IF p.val # Null /\ p.val.type = "term" THEN p.val ELSE Null])

skip_punc(st, ch) ==
    Try(is_punc(st, ch), LAMBDA p :
    IF p.val # Null THEN TokenStream_next(p.st)
    ELSE TokenStream_throw(p.st, "Expecting punctuation"))

throw_lazy(st) == TokenStream_throw(st, "Cannot mix lazy and non lazy operator")

\* this.is_lazy = v, with the assignment added to the history.
set_is_lazy(st, v) == [st EXCEPT !.is_lazy = v, !.writes = Append(@, v)]

\* new Op(type, left, right), made by juxtaposition ("lazy") or by an
\* explicit operator ("explicit"), with the way added to the history.
new_Op(st, how, type, left, right) ==
    [st |-> [st EXCEPT !.made = Append(@, how)], val |-> Op(type, left, right)]

parse_term(st) ==
    Try(TokenStream_next(st), LAMBDA n : [st |-> n.st, val |-> Term(n.val.value)])

parse_not(st) ==
    Try(TokenStream_next(st), LAMBDA n :
    Try(parse_operand(n.st, FALSE), LAMBDA r :
    [st |-> r.st, val |-> Not(r.val)]))

parse_operands(st) ==
    Try(skip_punc(st, "("), LAMBDA open :
    Try(parse_operand(open.st, TRUE), LAMBDA operands :
    Try(skip_punc(operands.st, ")"), LAMBDA close :
    [st |-> close.st, val |-> operands.val])))

\* The function parse_operand(false) hands to lazy_operator.
parse_operand_expr(st) ==
    Try(is_not(st), LAMBDA n :
    IF n.val # Null THEN parse_not(n.st)
    ELSE Try(is_punc(n.st, "("), LAMBDA p :
         IF p.val # Null THEN parse_operands(p.st)
         ELSE Try(is_term(p.st), LAMBDA t :
              IF t.val # Null THEN parse_term(t.st)
              ELSE unexpected(t.st))))

parse_operand(st, parse_op) ==
    IF parse_op # FALSE
    THEN Try(parse_operand(st, FALSE), LAMBDA r : parse_operator(r.st, r.val, 0))
    ELSE lazy_operator(st)

\* lazy_operator without its test of is_lazy: it never throws.
lazy_operator_unchecked(st) ==
    Try(parse_operand_expr(st), LAMBDA expr :
    Try(TokenStream_eof(expr.st), LAMBDA e :
    IF e.val THEN [st |-> e.st, val |-> expr.val]
    ELSE Try(is_op(e.st), LAMBDA o :
         IF o.val # Null THEN [st |-> o.st, val |-> expr.val]
         ELSE Try(is_punc(o.st, ")"), LAMBDA p :
              IF p.val # Null THEN [st |-> p.st, val |-> expr.val]
              ELSE Try(parse_operand(set_is_lazy(p.st, "true"), TRUE), LAMBDA right :
                   new_Op(right.st, "lazy", "|", expr.val, right.val))))))

\* lazy_operator making an `&` of a juxtaposition.
lazy_operator_and(st) ==
    Try(parse_operand_expr(st), LAMBDA expr :
    Try(TokenStream_eof(expr.st), LAMBDA e :
    IF e.val THEN [st |-> e.st, val |-> expr.val]
    ELSE Try(is_op(e.st), LAMBDA o :
         IF o.val # Null THEN [st |-> o.st, val |-> expr.val]
         ELSE Try(is_punc(o.st, ")"), LAMBDA p :
              IF p.val # Null THEN [st |-> p.st, val |-> expr.val]
              ELSE IF p.st.is_lazy = "false" THEN throw_lazy(p.st)
              ELSE Try(parse_operand(set_is_lazy(p.st, "true"), TRUE), LAMBDA right :
                   new_Op(right.st, "lazy", "&", expr.val, right.val))))))

lazy_operator(st) ==
    Try(parse_operand_expr(st), LAMBDA expr :
    Try(TokenStream_eof(expr.st), LAMBDA e :
    IF e.val THEN [st |-> e.st, val |-> expr.val]
    ELSE Try(is_op(e.st), LAMBDA o :
         IF o.val # Null THEN [st |-> o.st, val |-> expr.val]
         ELSE Try(is_punc(o.st, ")"), LAMBDA p :
              IF p.val # Null THEN [st |-> p.st, val |-> expr.val]
              ELSE IF p.st.is_lazy = "false" THEN throw_lazy(p.st)
              ELSE Try(parse_operand(set_is_lazy(p.st, "true"), TRUE), LAMBDA right :
                   new_Op(right.st, "lazy", "|", expr.val, right.val))))))

parse_operator(st, left, prec) ==
    Try(is_op(st), LAMBDA tok :
    IF tok.val = Null THEN [st |-> tok.st, val |-> left]
    ELSE IF tok.st.is_lazy = "true" THEN throw_lazy(tok.st)
    ELSE Let(set_is_lazy(tok.st, "false"), LAMBDA strict :
         Let(precedence(tok.val.type), LAMBDA next :
         IF ~(next > prec) THEN [st |-> strict, val |-> left]
         ELSE Try(TokenStream_next(strict), LAMBDA consumed :
              Try(parse_operand(consumed.st, FALSE), LAMBDA operand :
              Try(parse_operator(operand.st, operand.val, next), LAMBDA right :
              Let(new_Op(right.st, "explicit", tok.val.type, left, right.val),
                  LAMBDA op : parse_operator(op.st, op.val, prec))))))))

----------------------------------------------------------------------------
(* Evaluation: Term.exec, Not.exec, Op.exec on a Context.                   *)

\* String.substring(0, end)
substring0(str, end) ==
    SubSeq(str, 1, IF end < 0 THEN 0 ELSE IF end > Len(str) THEN Len(str) ELSE end)

indexOf_from(str, sub, i) ==
    IF i + Len(sub) > Len(str) THEN -1
    ELSE IF SubSeq(str, i + 1, i + Len(sub)) = sub THEN i
    ELSE indexOf_from(str, sub, i + 1)

\* String.indexOf: the 0-based offset of the first occurrence, or -1.
indexOf(str, sub) == indexOf_from(str, sub, 0)

\* new Context(): no key yet.  term is the object context.get('term') makes,
\* a map from offsets to entries; evals is history, the values of the Term
\* nodes whose exec has run, in order.
NewContext == [term |-> <<>>, evals |-> <<>>]

\* context.get('term')[index] = entry
Context_put(context, index, entry) ==
    [context EXCEPT !.term =
        [i \in (DOMAIN context.term) \cup {index} |->
            IF i = index THEN entry ELSE context.term[i]]]

Term_match(node, str, val, context) ==
    Let(indexOf(str, val), LAMBDA index :
    IF index = -1 THEN [context |-> context, val |-> FALSE]
    ELSE [context |-> Context_put(context, index,
                          [length |-> Len(val), gap |-> Len(node.value) - Len(val)]),
          val |-> TRUE])

\* Term.exec's loop with gap < this.tolerance for gap <= this.tolerance.
Term_exec_loop_exclusive(node, str, context, gap) ==
    IF gap < node.tolerance
    THEN Let(Term_match(node, str,
                        substring0(node.value, Len(node.value) - gap), context),
             LAMBDA m : IF m.val THEN m
                        ELSE Term_exec_loop(node, str, m.context, gap + 1))
    ELSE [context |-> context, val |-> FALSE]

\* The while loop of Term.exec, entered with match = false.
Term_exec_loop(node, str, context, gap) ==
    IF gap <= node.tolerance
    THEN Let(Term_match(node, str,
                        substring0(node.value, Len(node.value) - gap), context),
             LAMBDA m : IF m.val THEN m
                        ELSE Term_exec_loop(node, str, m.context, gap + 1))
    ELSE [context |-> context, val |-> FALSE]

Term_exec(node, str, context) ==
    Term_exec_loop(node, str, [context EXCEPT !.evals = Append(@, node.value)], 0)

Not_exec(node, str, context) ==
    Let(node_exec(node.value, str, context), LAMBDA r :
    [context |-> r.context, val |-> ~r.val])

\* Op_exec as `&&` and `||` on the calls themselves would make it: the right
\* operand is not evaluated when the left one decides.
Op_exec_short_circuit(node, str, context) ==
    Let(node_exec(node.left, str, context), LAMBDA left :
    IF (node.type = "&") # left.val THEN left
    ELSE node_exec(node.right, str, left.context))

\* Op_exec with the two combinators exchanged.
Op_exec_swapped(node, str, context) ==
    Let(node_exec(node.left, str, context), LAMBDA left :
    Let(node_exec(node.right, str, left.context), LAMBDA right :
    [context |-> right.context,
     val |-> IF node.type = "&" THEN left.val \/ right.val
             ELSE left.val /\ right.val]))

Op_exec(node, str, context) ==
    Let(node_exec(node.left, str, context), LAMBDA left :
    Let(node_exec(node.right, str, left.context), LAMBDA right :
    [context |-> right.context,
     val |-> IF node.type = "&" THEN left.val /\ right.val
             ELSE left.val \/ right.val]))

\* node.exec(str, context), by the class of the node.
node_exec(node, str, context) ==
    IF node.type = "term" THEN Term_exec(node, str, context)
    ELSE IF node.type = "!" THEN Not_exec(node, str, context)
    ELSE Op_exec(node, str, context)

----------------------------------------------------------------------------
(* Interpreter                                                              *)

\* What a call gave: err is the message of the Error it threw, or NoError
\* and val is what it returned.  parsed is history: whether the call ran the
\* parser.
Returned(call, parsed, val) ==
    [call |-> call, parsed |-> parsed, err |-> NoError, val |-> val]

Threw(call, err) == [call |-> call, parsed |-> TRUE, err |-> err, val |-> Null]

\* compile() without its cache: this.value = this.input.parse_operand(true).
Interpreter_compile_uncached(p, v) ==
    Let(parse_operand(p, TRUE), LAMBDA r :
    IF r.st.err # NoError
    THEN [parser |-> [r.st EXCEPT !.err = NoError], value |-> v,
          ret |-> Threw("compile", r.st.err)]
    ELSE [parser |-> r.st, value |-> r.val, ret |-> Returned("compile", TRUE, r.val)])

\* this.value || (this.value = this.input.parse_operand(true)).  An Error
\* leaves the Parser as the throw found it; err is cleared as the caller
\* catches it.
Interpreter_compile(p, v) ==
    IF v # Undefined
    THEN [parser |-> p, value |-> v, ret |-> Returned("compile", FALSE, v)]
    ELSE Let(parse_operand(p, TRUE), LAMBDA r :
         IF r.st.err # NoError
         THEN [parser |-> [r.st EXCEPT !.err = NoError], value |-> v,
               ret |-> Threw("compile", r.st.err)]
         ELSE [parser |-> r.st, value |-> r.val,
               ret |-> Returned("compile", TRUE, r.val)])

\* Interpreter.exec once this.compile() has given c: new Context(),
\* c.exec(str, context), context.success = success.
Interpreter_exec_compiled(c, str) ==
    IF c.ret.err # NoError THEN [c EXCEPT !.ret = Threw("exec", c.ret.err)]
    ELSE Let(node_exec(c.value, str, NewContext), LAMBDA r :
         [c EXCEPT !.ret =
             [call |-> "exec", parsed |-> c.ret.parsed, err |-> NoError,
              subject |-> str, evals |-> r.context.evals,
              val |-> [term |-> r.context.term, success |-> r.val]]])

Interpreter_exec(p, v, str) ==
    Interpreter_exec_compiled(Interpreter_compile(p, v), str)

----------------------------------------------------------------------------
(* Writing a token sequence as a query.                                     *)

RECURSIVE Escape(_)
\* A quoted term's value with \ and " escaped by a backslash.
Escape(str) ==
    IF str = <<>> THEN <<>>
    ELSE (IF Head(str) \in {"\\", "\""} THEN <<"\\", Head(str)>> ELSE <<Head(str)>>)
         \o Escape(Tail(str))

\* A written token: what the tokenizer must give back, and whether a term is
\* written between double quotes.
Written(tok, quoted) == [tok |-> tok, quoted |-> quoted]

Literal(w) ==
    IF w.tok.type = "term"
    THEN IF w.quoted THEN <<"\"">> \o Escape(w.tok.value) \o <<"\"">> ELSE w.tok.value
    ELSE IF w.tok.type \in {"punc", "bad"} THEN w.tok.value
    ELSE <<w.tok.type>>

RECURSIVE Join(_)
\* The literals joined by single spaces.
Join(ws) ==
    IF ws = <<>> THEN <<>>
    ELSE IF Len(ws) = 1 THEN Literal(ws[1])
    ELSE Literal(ws[1]) \o <<" ">> \o Join(Tail(ws))

----------------------------------------------------------------------------
(* The inputs.                                                              *)

RECURSIVE Strings(_, _)
\* The strings over chars of length at most n.
Strings(chars, n) ==
    IF n = 0 THEN {<<>>}
    ELSE Let(Strings(chars, n - 1), LAMBDA shorter :
         shorter \cup {Append(s, c) : s \in shorter, c \in chars})

TermToken(v) == [type |-> "term", value |-> v]

Symbols ==
    {[type |-> "!", value |-> <<>>], [type |-> "&", value |-> <<>>],
     [type |-> "|", value |-> <<>>],
     [type |-> "punc", value |-> <<"(">>], [type |-> "punc", value |-> <<")">>]}

\* The term values of the queries: two that match independently of each
\* other, and a third that can match where the first does.
TermValues == {<<"a", "b">>, <<"b", "a">>, <<"a", "a">>}

\* The values of the quoted terms: with a space, a quote and a backslash
\* inside, the empty value, and one that could be written without quotes.
QuotedValues ==
    {<<>>, <<"a", " ", "b">>, <<"a", "\"", "b">>, <<"a", "\\", "b">>,
     <<"\\">>, <<"\"">>, <<"a">>}

Terms == {Written(TermToken(v), FALSE) : v \in TermValues}

\* The tokens of a query by their kinds: one term, `!`, `&`, `|`, `(`, `)`.
Vocabulary ==
    {Written(TermToken(<<"a", "b">>), FALSE)} \cup {Written(t, FALSE) : t \in Symbols}

\* The tokens of the tokenizer's inputs: every term, quoted terms too.
LexVocabulary ==
    Vocabulary \cup Terms \cup {Written(TermToken(v), TRUE) : v \in QuotedValues}

\* A quoted term that cannot be written without its quotes.
QuotedTerm == Written(TermToken(<<"a", " ", "b">>), TRUE)

\* A character no token starts with, written where a token would be.
BadCharacter == Written([type |-> "bad", value |-> <<"#">>], FALSE)

\* What stands between two operands of a chain: an explicit operator, or
\* nothing (a juxtaposition).
Joints ==
    {<<Written([type |-> "&", value |-> <<>>], FALSE)>>,
     <<Written([type |-> "|", value |-> <<>>], FALSE)>>, <<>>}

RECURSIVE Chains(_, _)
\* The chains of n operands at most, with a joint between neighbours.
Chains(operands, n) ==
    IF n = 0 THEN {}
    ELSE IF n = 1 THEN operands
    ELSE Let(Chains(operands, n - 1), LAMBDA shorter :
         shorter \cup {c \o j \o x : c \in shorter, j \in Joints, x \in operands})

\* The operands of the chains of terms.
TermOperands == {<<t>> : t \in Terms}

\* The operands of the chains of groups: a term, and two terms between
\* parentheses, juxtaposed or joined by `|`.
GroupOperands ==
    Let(Written(TermToken(<<"a", "b">>), FALSE), LAMBDA t :
        {<<t>>}
            \cup {<<Written([type |-> "punc", value |-> <<"(">>], FALSE), t>>
                      \o j \o <<t, Written([type |-> "punc", value |-> <<")">>], FALSE)>>
                  : j \in {<<>>, <<Written([type |-> "|", value |-> <<>>], FALSE)>>}})

\* The well-formed queries: chains of terms and chains of groups.
WellFormed ==
    Chains(TermOperands, MaxOperands) \cup Chains(GroupOperands, MaxOperands)

Subjects == Strings({"a", "b"}, MaxSubjectLen)

\* The queries: every sequence of token kinds up to MaxTokens, the
\* well-formed chains of up to MaxOperands operands, and the short sequences
\* with a quoted term and a bad character among the tokens.
Queries ==
    Strings(Vocabulary, MaxTokens)
        \cup WellFormed
        \cup Strings(Vocabulary \cup {QuotedTerm, BadCharacter}, MaxBadTokens)

----------------------------------------------------------------------------
(* The Interpreter: new Interpreter(query), then compile() and exec(str)    *)
(* calls in any order.                                                      *)

Init ==
    /\ written \in Queries
    /\ parser = NewParser(Join(written))
    /\ value = Undefined
    /\ ret = Returned("new", FALSE, Null)
    /\ out = <<>>

\* The call returns or throws: c is what Interpreter_compile or
\* Interpreter_exec gave.
Returns(c) ==
    /\ parser' = c.parser
    /\ value' = c.value
    /\ ret' = c.ret
    /\ UNCHANGED <<written, out>>

\* interpreter.compile()
Compile == Returns(Interpreter_compile(parser, value))

\* interpreter.exec(str) for any subject, once its this.compile() has given
\* compiled.
ExecWith(compiled) ==
    \E str \in Subjects : Returns(Interpreter_exec_compiled(compiled, str))

\* interpreter.exec(str): Interpreter_exec(parser, value, str), with the
\* compile() it starts with evaluated once for all subjects.
Exec == ExecWith(Interpreter_compile(parser, value))

Next == Compile \/ Exec

Spec == Init /\ [][Next]_vars

----------------------------------------------------------------------------
(* The TokenStream alone: new TokenStream(input), then next() and peek()    *)
(* calls in any order.                                                      *)

InitLex ==
    /\ written \in Strings(LexVocabulary, MaxLexTokens)
    /\ parser = NewParser(Join(written))
    /\ value = Undefined
    /\ ret = Returned("new", FALSE, Null)
    /\ out = <<>>

\* A call of the TokenStream returns or throws: r is what it gave; a token
\* next() returns is added to out.
LexReturns(call, r) ==
    /\ parser' = [r.st EXCEPT !.err = NoError]
    /\ ret' = IF r.st.err # NoError THEN Threw(call, r.st.err)
              ELSE Returned(call, FALSE, r.val)
    /\ out' = IF call = "next" /\ r.st.err = NoError THEN Append(out, r.val) ELSE out
    /\ UNCHANGED <<written, value>>

\* tokens.next(), until it has returned MaxNulls tokens more than were
\* written.
LexNext ==
    /\ Len(out) < Len(written) + MaxNulls
    /\ LexReturns("next", TokenStream_next(parser))

\* tokens.peek()
LexPeek == LexReturns("peek", TokenStream_peek(parser))

NextLex == LexNext \/ LexPeek

SpecLex == InitLex /\ [][NextLex]_vars

----------------------------------------------------------------------------
(* A Term node alone: new Term(v), then exec(str, new Context()) calls.     *)

InitTerm ==
    /\ written = <<>>
    /\ parser = NewParser(<<>>)
    /\ value \in {Term(v) : v \in Strings({"a", "b"}, MaxTermLen)}
    /\ ret = Returned("new", FALSE, Null)
    /\ out = <<>>

\* term.exec(str, context) on a fresh Context returns r.
TermReturns(str, r) ==
    /\ ret' = [call |-> "term", parsed |-> FALSE, err |-> NoError,
               subject |-> str, evals |-> r.context.evals,
               val |-> [term |-> r.context.term, success |-> r.val]]
    /\ UNCHANGED <<written, parser, value, out>>

TermExec ==
    \E str \in Strings({"a", "b"}, MaxTermLen) :
        TermReturns(str, Term_exec(value, str, NewContext))

NextTerm == TermExec

SpecTerm == InitTerm /\ [][NextTerm]_vars

----------------------------------------------------------------------------
(* What the claims are stated with.                                         *)

\* The largest element of a non-empty set of numbers.
Max(S) == CHOOSE x \in S : \A y \in S : y <= x

\* The smallest element of a non-empty set of numbers.
Min(S) == CHOOSE x \in S : \A y \in S : x <= y

\* A query of terms and explicit operators only: term, operator, term, ...
IsOperatorChain(ws) ==
    /\ Len(ws) % 2 = 1
    /\ \A i \in 1..Len(ws) :
        IF i % 2 = 1 THEN ws[i].tok.type = "term" ELSE ws[i].tok.type \in {"&", "|"}

\* A query of juxtaposed terms only.
IsJuxtaposition(ws) ==
    /\ Len(ws) >= 1
    /\ \A i \in 1..Len(ws) : ws[i].tok.type = "term"

RECURSIVE Reference(_)
\* The reference precedence parser on an operator chain: the tree splits at
\* the last of its weakest operators (`|` when there is one, `&` otherwise),
\* so `&` binds tighter than `|` and equal operators group left to right.
Reference(ws) ==
    IF Len(ws) = 1 THEN Term(ws[1].tok.value)
    ELSE LET ors == {i \in 1..Len(ws) : ws[i].tok.type = "|"}
             ands == {i \in 1..Len(ws) : ws[i].tok.type = "&"}
             split == IF ors # {} THEN Max(ors) ELSE Max(ands)
         IN  Op(ws[split].tok.type,
                Reference(SubSeq(ws, 1, split - 1)),
                Reference(SubSeq(ws, split + 1, Len(ws))))

\* p occurs in s as a literal substring.
Occurs(p, s) ==
    \E i \in 0..(Len(s) - Len(p)) : SubSeq(s, i + 1, i + Len(p)) = p

\* The offset of the first occurrence of p in s.
FirstOccurrence(p, s) ==
    Min({i \in 0..(Len(s) - Len(p)) : SubSeq(s, i + 1, i + Len(p)) = p})

\* ceil(n / 4)
Tolerance(n) == CHOOSE k \in 0..n : 4 * k >= n /\ 4 * k < n + 4

\* The gaps at which the term value v matches the subject s: the prefix of v
\* without its last gap characters occurs in s.
MatchingGaps(v, s) ==
    {gap \in 0..Tolerance(Len(v)) : Occurs(SubSeq(v, 1, Len(v) - gap), s)}

\* The term value v matches the subject s.
Matches(v, s) == MatchingGaps(v, s) # {}

\* The query `a & b | c`, whatever the terms a, b and c.
IsAndOr(ws) ==
    /\ IsOperatorChain(ws)
    /\ Len(ws) = 5
    /\ ws[2].tok.type = "&"
    /\ ws[4].tok.type = "|"

----------------------------------------------------------------------------
(* The claims.                                                              *)

\* C1: for every query of terms and explicit `&`/`|` operators only, the tree
\* compile() builds is the tree of the reference precedence parser: `&` binds
\* tighter than `|`, operators of equal strength group left to right.
C1_PrecedenceClimbing ==
    (ret.call # "new" /\ IsOperatorChain(written)) =>
        /\ ret.err = NoError
        /\ value = Reference(written)
        /\ ret.call = "compile" => ret.val = Reference(written)

\* compile() has returned Op(|, Op(&, a, b), c) for `a & b | c`.
C1_Witness ==
    /\ ret.call = "compile"
    /\ IsAndOr(written)
    /\ ret.val.type = "|"
    /\ ret.val.left.type = "&"
    /\ ret.val.right.type = "term"

\* C2, as claimed: for `a & b | c`, success is true when a and b match and c
\* does not, and false whenever a fails to match, whether or not c matches.
C2_Original ==
    (ret.call = "exec" /\ ret.err = NoError /\ IsAndOr(written)) =>
        /\ (/\ Matches(written[1].tok.value, ret.subject)
            /\ Matches(written[3].tok.value, ret.subject)
            /\ ~Matches(written[5].tok.value, ret.subject)) => ret.val.success
        /\ ~Matches(written[1].tok.value, ret.subject) => ~ret.val.success

\* C2, amended: for `a & b | c`, success is true when a and b match and c
\* does not; when a fails to match, success is true exactly when c matches.
C2_AndBindsTighter ==
    (ret.call = "exec" /\ ret.err = NoError /\ IsAndOr(written)) =>
        /\ (/\ Matches(written[1].tok.value, ret.subject)
            /\ Matches(written[3].tok.value, ret.subject)
            /\ ~Matches(written[5].tok.value, ret.subject)) => ret.val.success
        /\ ~Matches(written[1].tok.value, ret.subject) =>
               (ret.val.success <=> Matches(written[5].tok.value, ret.subject))

\* exec() of `a & b | c` has returned success where a fails and c matches.
C2_Witness ==
    /\ ret.call = "exec"
    /\ ret.err = NoError
    /\ IsAndOr(written)
    /\ ~Matches(written[1].tok.value, ret.subject)
    /\ Matches(written[5].tok.value, ret.subject)
    /\ ret.val.success

\* The message of throw_lazy.
MixError == "Cannot mix lazy and non lazy operator"

\* Two neighbouring tokens of which the first ends an operand and the second
\* starts one: a juxtaposition.
HasJuxtaposition(ws) ==
    \E i \in 1..(Len(ws) - 1) :
        /\ \/ ws[i].tok.type = "term"
           \/ ws[i].tok.type = "punc" /\ ws[i].tok.value = <<")">>
        /\ \/ ws[i + 1].tok.type \in {"term", "!"}
           \/ ws[i + 1].tok.type = "punc" /\ ws[i + 1].tok.value = <<"(">>

HasOperator(ws) == \E i \in 1..Len(ws) : ws[i].tok.type \in {"&", "|"}

\* A well-formed query that uses both styles, in whatever scopes.
IsMixed(ws) == ws \in WellFormed /\ HasJuxtaposition(ws) /\ HasOperator(ws)

\* C3: the parser's is_lazy is pinned by its first assignment: every value
\* assigned to it is the value it has, every Op made so far was made in the
\* style it stands for (no tree holds an Op of each style), and the first
\* compile of a well-formed query that uses both styles, in parentheses or
\* not, throws 'Cannot mix lazy and non lazy operator'.
C3_StylePinned ==
    /\ [](/\ \A i \in DOMAIN parser.writes : parser.writes[i] = parser.is_lazy
          /\ \A i \in DOMAIN parser.made :
                parser.made[i] = IF parser.is_lazy = "true" THEN "lazy" ELSE "explicit")
    /\ [][(ret.call = "new" /\ IsMixed(written)) => ret'.err = MixError]_vars

\* The first compile of `a b & (c | d)` has thrown the error.
C3_Witness ==
    /\ ret.err = MixError
    /\ IsMixed(written)
    /\ Len(written) = 8
    /\ written[3].tok.type = "&"
    /\ written[4].tok.type = "punc"
    /\ parser.writes = <<"true">>

RECURSIVE WithOrs(_)
\* The terms of a juxtaposition joined by explicit `|`.
WithOrs(ws) ==
    IF Len(ws) <= 1 THEN ws
    ELSE <<ws[1], Written([type |-> "|", value |-> <<>>], FALSE)>> \o WithOrs(Tail(ws))

\* C4: a query of juxtaposed terms compiles without error, and exec gives
\* for every subject the success and the term mapping that the same terms
\* joined by `|` give on a fresh Interpreter.
C4_JuxtapositionIsOr ==
    (ret.call # "new" /\ IsJuxtaposition(written)) =>
        /\ ret.err = NoError
        /\ ret.call = "exec" =>
               ret.val = Interpreter_exec(NewParser(Join(WithOrs(written))),
                                          Undefined, ret.subject).ret.val

\* exec() of three juxtaposed terms has returned success and a mapping with
\* an entry, one of the terms having failed.
C4_Witness ==
    /\ ret.call = "exec"
    /\ IsJuxtaposition(written)
    /\ Len(written) = 3
    /\ ret.val.success
    /\ DOMAIN ret.val.term # {}
    /\ \E i \in 1..3 : ~Matches(written[i].tok.value, ret.subject)

\* The offset at which the term value v, matching s, is recorded: that of
\* the first occurrence of its longest matching prefix.
MatchOffset(v, s) ==
    FirstOccurrence(SubSeq(v, 1, Len(v) - Min(MatchingGaps(v, s))), s)

\* The entry the term value v, matching s, records.
MatchEntry(v, s) ==
    [length |-> Len(v) - Min(MatchingGaps(v, s)), gap |-> Min(MatchingGaps(v, s))]

\* C5: Term.exec on a fresh context returns true exactly when the term's
\* value without its last gap characters occurs in the subject for some gap
\* in 0..ceil(n/4); the mapping then holds one entry, at the first
\* occurrence for the smallest such gap, with length n - gap and that gap;
\* otherwise it returns false and the mapping holds nothing.
C5_TermExec ==
    ret.call = "term" =>
        /\ ret.val.success = Matches(value.value, ret.subject)
        /\ IF Matches(value.value, ret.subject)
           THEN /\ DOMAIN ret.val.term = {MatchOffset(value.value, ret.subject)}
                /\ ret.val.term[MatchOffset(value.value, ret.subject)]
                       = MatchEntry(value.value, ret.subject)
           ELSE DOMAIN ret.val.term = {}

\* A term of five characters has matched with gap 2, past the start of the
\* subject.
C5_Witness ==
    /\ ret.call = "term"
    /\ Len(value.value) = 5
    /\ ret.val.success
    /\ \E o \in DOMAIN ret.val.term :
          o > 0 /\ ret.val.term[o] = [length |-> 3, gap |-> 2]

\* The first Term node, in evaluation order, that matches s at the offset o.
FirstWriter(evals, s, o) ==
    Min({i \in 1..Len(evals) : Matches(evals[i], s) /\ MatchOffset(evals[i], s) = o})

\* C6, as claimed: the entry exec returns at an offset is the one written by
\* the first Term node, in evaluation order, that matched there.
C6_FirstWriteWins ==
    (ret.call = "exec" /\ ret.err = NoError) =>
        \A o \in DOMAIN ret.val.term :
            ret.val.term[o]
                = MatchEntry(ret.evals[FirstWriter(ret.evals, ret.subject, o)], ret.subject)

RECURSIVE Leaves(_)
\* The values of the Term nodes of a tree, left to right.
Leaves(node) ==
    IF node.type = "term" THEN <<node.value>>
    ELSE IF node.type = "!" THEN Leaves(node.value)
    ELSE Leaves(node.left) \o Leaves(node.right)

\* C7: exec evaluates every Term node of the tree once, left to right,
\* whatever stands above it, and every Term node that matches the subject
\* leaves an entry at its offset in the returned mapping.
C7_NoShortCircuit ==
    (ret.call = "exec" /\ ret.err = NoError) =>
        /\ ret.evals = Leaves(value)
        /\ \A i \in 1..Len(ret.evals) :
              Matches(ret.evals[i], ret.subject) =>
                  MatchOffset(ret.evals[i], ret.subject) \in DOMAIN ret.val.term

\* exec() of And(TermA, TermB), TermA failing and TermB matching, has
\* returned failure and TermB's entry.
C7_Witness ==
    /\ ret.call = "exec"
    /\ ret.err = NoError
    /\ value.type = "&"
    /\ value.left.type = "term"
    /\ value.right.type = "term"
    /\ ~Matches(value.left.value, ret.subject)
    /\ Matches(value.right.value, ret.subject)
    /\ ~ret.val.success
    /\ DOMAIN ret.val.term = {MatchOffset(value.right.value, ret.subject)}

\* C8: once a compile has succeeded, every later compile() and exec() leaves
\* the cached tree and the whole parser (token stream and flag) as they
\* are, does not run the parser, does not throw, and compile() returns the
\* cached tree.
C8_CompileOnce ==
    [][value # Undefined =>
          /\ value' = value
          /\ parser' = parser
          /\ ret'.err = NoError
          /\ ~ret'.parsed
          /\ ret'.call = "compile" => ret'.val = value]_vars

\* compile() has returned the cached tree without running the parser.
C8_Witness ==
    /\ ret.call = "compile"
    /\ ~ret.parsed
    /\ value # Undefined
    /\ ret.val = value
    /\ parser.pos > 0

\* C9, as claimed: once a call has thrown, every later call throws.
C9_FailurePermanent == [][ret.err # NoError => ret'.err # NoError]_vars

\* C10: the tokens next() returns are the written tokens, in order, then
\* null; peek() returns the token the next next() returns; nothing throws.
C10_RoundTrip ==
    /\ ret.err = NoError
    /\ \A i \in 1..Len(out) :
          out[i] = IF i <= Len(written) THEN written[i].tok ELSE Null
    /\ ret.call = "peek" =>
          ret.val = IF Len(out) < Len(written) THEN written[Len(out) + 1].tok ELSE Null

\* Every token has been read back and null after them, the input holding a
\* quoted term with an escaped quote and one with an escaped backslash, and
\* peek() has then returned null.
C10_Witness ==
    /\ Len(written) = MaxLexTokens
    /\ Len(out) = Len(written) + 1
    /\ out[Len(out)] = Null
    /\ ret.call = "peek"
    /\ \E i \in 1..Len(written) :
          written[i].quoted /\ written[i].tok.value = <<"a", "\"", "b">>
    /\ \E i \in 1..Len(written) :
          written[i].quoted /\ written[i].tok.value = <<"a", "\\", "b">>

\* The token stream of the parser p is at end of input: nothing is buffered
\* and nothing but whitespace is left to read.
AtEnd(p) ==
    LET e == TokenStream_eof(p) IN e.st.err = NoError /\ e.val

\* C11, as claimed: when the first compile() or exec() of an Interpreter
\* returns, every token of the query has been consumed; a query with tokens
\* left over after a complete expression throws instead.
C11_WholeQuery ==
    [][(ret.call = "new" /\ ret'.err = NoError) => AtEnd(parser')]_vars

\* C12, as claimed: a term of at least one character matches only a subject
\* that holds a non-empty prefix of it, and every entry of the term mapping
\* has length >= 1.
C12_RealContent ==
    (ret.call = "term" /\ Len(value.value) >= 1) =>
        /\ ret.val.success =>
               \E k \in 1..Len(value.value) :
                   Occurs(SubSeq(value.value, 1, k), ret.subject)
        /\ \A o \in DOMAIN ret.val.term : ret.val.term[o].length >= 1

\* The query `! a & b`, whatever the terms a and b.
IsNotAnd(ws) ==
    /\ Len(ws) = 4
    /\ ws[1].tok.type = "!"
    /\ ws[2].tok.type = "term"
    /\ ws[3].tok.type = "&"
    /\ ws[4].tok.type = "term"

\* The query `! a b`, whatever the terms a and b.
IsNotJuxtaposed(ws) ==
    /\ Len(ws) = 3
    /\ ws[1].tok.type = "!"
    /\ ws[2].tok.type = "term"
    /\ ws[3].tok.type = "term"

\* C13, as claimed: `!a & b` compiles to Op(&, Not(a), b), `!a b` compiles
\* to Op(|, Not(a), b), and exec of `!a b` gives for every subject the
\* success that `!a | b` gives on a fresh Interpreter.
C13_NotBindsPrimary ==
    /\ (IsNotAnd(written) /\ value # Undefined) =>
           value = Op("&", Not(Term(written[2].tok.value)), Term(written[4].tok.value))
    /\ (IsNotJuxtaposed(written) /\ value # Undefined) =>
           value = Op("|", Not(Term(written[2].tok.value)), Term(written[3].tok.value))
    /\ (IsNotJuxtaposed(written) /\ ret.call = "exec" /\ ret.err = NoError) =>
           ret.val.success
               = Interpreter_exec(
                     NewParser(Join(<<written[1], written[2],
                                      Written([type |-> "|", value |-> <<>>], FALSE),
                                      written[3]>>)),
                     Undefined, ret.subject).ret.val.success

====
